---- MODULE Spec2Model ----
(***************************************************************************)
(* A model of the two batch scripts of AI-doc2md:                          *)
(*   scripts/convert_any_to_md.py    the conversion pipeline               *)
(*   scripts/split_md_by_heading.py  the heading splitter                  *)
(* Texts, file names and file contents are sequences of one-character      *)
(* strings; a path is a sequence of names; a directory tree is a function  *)
(* from the paths that exist to their nodes.                               *)
(***************************************************************************)
EXTENDS Integers, Sequences, FiniteSets, TLC

VARIABLES
    text, level, parts, tpc,          \* split_markdown applied to one text
    src, dst, clock,                  \* source tree, destination tree, wall clock
    opts,                             \* the command line of the current run
    mainPc, files, pc, outcome,       \* main() and the futures of the pool
    processed_count, total_files,     \* main()'s progress accounting
    run,                              \* number of runs started
    dst0,                             \* the destination tree when the run started
    prevRun,                          \* the summary of the previous run
    next_idx,                         \* per item, the chapter _write_chapters is at
    srcChanged,                       \* the source tree changed since the previous run
    rounds, fname                     \* two rounds of _write_chapters' loop, their file names

vars == <<text, level, parts, tpc, src, dst, clock, opts, mainPc, files, pc,
          outcome, processed_count, total_files, run, dst0, prevRun, next_idx,
          srcChanged, rounds, fname>>

(***************************************************************************)
(* Bounds of the model.                                                    *)
(***************************************************************************)
MaxLen == 5        \* longest enumerated text given to split_markdown
MaxLevel == 2      \* heading levels 1..MaxLevel (the CLI allows 1..6)
MaxFiles == 2      \* most files in a source tree
MaxClock == 2      \* last reading of the wall clock
MaxRuns == 2       \* most runs of a script in a row
MaxWorkers == 2    \* largest --workers given
CpuCount == 2      \* os.cpu_count() of the machine
MaxChapters == 101 \* most chapters of one book

(***************************************************************************)
(* Strings.                                                                *)
(***************************************************************************)
NL == "\n"
SP == " "
HASH == "#"

\* str.strip() with no argument removes whitespace; the model's alphabet has
\* two whitespace characters.
Whitespace == {SP, NL}

RECURSIVE LStrip(_)
LStrip(s) == IF s = <<>> THEN s
             ELSE IF Head(s) \in Whitespace THEN LStrip(Tail(s)) ELSE s

RECURSIVE RStrip(_)
RStrip(s) == IF s = <<>> THEN s
             ELSE IF s[Len(s)] \in Whitespace THEN RStrip(SubSeq(s, 1, Len(s) - 1))
             ELSE s

Strip(s) == RStrip(LStrip(s))

\* Python's s[a:b] with 0 <= a <= b <= len(s)
Slice(s, a, b) == SubSeq(s, a + 1, b)

StartsWith(s, p) == Len(s) >= Len(p) /\ SubSeq(s, 1, Len(p)) = p

RECURSIVE Repeat(_, _)
Repeat(c, n) == IF n = 0 THEN <<>> ELSE <<c>> \o Repeat(c, n - 1)

(***************************************************************************)
(* The heading pattern  ^(#{level})\s+(.+)$  under re.MULTILINE.           *)
(* Positions are 0-based offsets as in Python; t[p + 1] is the character   *)
(* at offset p.                                                            *)
(***************************************************************************)
\* ^ : at the start of the text or right after a newline
AtLineStart(t, s) == s = 0 \/ t[s] = NL

\* (#{level})
HashesAt(t, lv, s) == s + lv <= Len(t) /\ \A i \in 1..lv : t[s + i] = HASH

\* the length of the whitespace run at offset p
RECURSIVE WsRun(_, _)
WsRun(t, p) == IF p < Len(t) /\ t[p + 1] \in Whitespace THEN 1 + WsRun(t, p + 1) ELSE 0

\* $ after (.+): the offset of the next newline, or the end of the text
RECURSIVE LineEnd(_, _)
LineEnd(t, p) == IF p < Len(t) /\ t[p + 1] # NL THEN LineEnd(t, p + 1) ELSE p

\* \s+ is greedy and backtracks: it keeps the largest number k >= 1 of
\* whitespace characters after which one more character that is not a newline
\* follows (the first character of (.+)); 0 when there is no such k.
WsTaken(t, p) ==
    LET w == WsRun(t, p)
        ok == {k \in 1..w : p + k < Len(t) /\ t[p + k + 1] # NL}
    IN  IF ok = {} THEN 0 ELSE CHOOSE k \in ok : \A j \in ok : j <= k

MatchAt(t, lv, s) ==
    /\ s <= Len(t)
    /\ AtLineStart(t, s)
    /\ HashesAt(t, lv, s)
    /\ WsTaken(t, s + lv) > 0

\* m.start(), m.end(), m.group(2) of the match at offset s
MatchRec(t, lv, s) ==
    LET g == s + lv + WsTaken(t, s + lv)
        e == LineEnd(t, g)
    IN  [start |-> s, end |-> e, group2 |-> Slice(t, g, e)]

\* h_re.finditer(text): the non-overlapping matches, left to right, from offset p
RECURSIVE FindIter(_, _, _)
FindIter(t, lv, p) ==
    IF p > Len(t) THEN <<>>
    ELSE IF MatchAt(t, lv, p)
         THEN LET m == MatchRec(t, lv, p) IN <<m>> \o FindIter(t, lv, m.end)
         ELSE FindIter(t, lv, p + 1)

(***************************************************************************)
(* split_markdown                                                          *)
(***************************************************************************)
PROLOGUE == <<"p", "r", "o", "l", "o", "g", "u", "e">>

\* the loop over the matches, then the tail: the list `parts`
RECURSIVE SplitLoopFromEnd(_, _, _, _)
SplitLoopFromEnd(t, ms, last_pos, last_title) ==
    IF ms = <<>>
    THEN LET tail == Strip(Slice(t, last_pos, Len(t)))
         IN  IF tail # <<>> THEN << <<last_title, tail>> >> ELSE <<>>
    ELSE LET m == Head(ms)
             body == Slice(t, last_pos, m.start)
             here == IF Strip(body) # <<>> THEN << <<last_title, Strip(body)>> >> ELSE <<>>
         IN  here \o SplitLoopFromEnd(t, Tail(ms), m.end, Strip(m.group2))

RECURSIVE SplitLoop(_, _, _, _)
SplitLoop(t, ms, last_pos, last_title) ==
    IF ms = <<>>
    THEN LET tail == Strip(Slice(t, last_pos, Len(t)))
         IN  IF tail # <<>> THEN << <<last_title, tail>> >> ELSE <<>>
    ELSE LET m == Head(ms)
             body == Slice(t, last_pos, m.start)
             here == IF Strip(body) # <<>> THEN << <<last_title, Strip(body)>> >> ELSE <<>>
         IN  here \o SplitLoop(t, Tail(ms), m.start, Strip(m.group2))

\* the heading line put in front of a chunk that does not start with "#"
SynthHeading(lv, title) == Repeat(HASH, lv) \o <<SP>> \o title \o <<NL, NL>>

Refine(lv, part) ==
    IF StartsWith(part[2], <<HASH>>) THEN part
    ELSE <<part[1], SynthHeading(lv, part[1]) \o part[2]>>

split_markdown(t, lv) ==
    LET ps == SplitLoop(t, FindIter(t, lv, 0), 0, PROLOGUE)
    IN  [i \in 1..Len(ps) |-> Refine(lv, ps[i])]

(***************************************************************************)
(* SpecText: split_markdown applied to every text of at most MaxLen        *)
(* characters over Alphabet, and to the text of the documented example.    *)
(***************************************************************************)
Alphabet == {HASH, SP, NL, "a", "b"}

RECURSIVE SeqsUpTo(_)
SeqsUpTo(n) ==
    IF n = 0 THEN {<<>>}
    ELSE LET shorter == SeqsUpTo(n - 1)
         IN  shorter \cup {Append(s, c) : s \in {x \in shorter : Len(x) = n - 1}, c \in Alphabet}

\* "Intro text\n# A\nbody1\n# B\nbody2"
ExampleText ==
    <<"I", "n", "t", "r", "o", SP, "t", "e", "x", "t", NL,
      HASH, SP, "A", NL, "b", "o", "d", "y", "1", NL,
      HASH, SP, "B", NL, "b", "o", "d", "y", "2">>

Texts == SeqsUpTo(MaxLen) \cup {ExampleText}
Levels == 1..MaxLevel

Idle == "-"

\* the variables of the two pipelines, at rest
PipelineAtRest ==
    /\ src = <<>> /\ dst = <<>> /\ clock = 0 /\ opts = Idle
    /\ mainPc = Idle /\ files = <<>> /\ pc = <<>> /\ outcome = <<>>
    /\ processed_count = 0 /\ total_files = 0
    /\ run = 0 /\ dst0 = <<>> /\ prevRun = Idle /\ next_idx = <<>>
    /\ srcChanged = FALSE

pipelineVars == <<src, dst, clock, opts, mainPc, files, pc, outcome,
                  processed_count, total_files, run, dst0, prevRun, next_idx,
                  srcChanged>>

\* the variables of the naming of chapters, at rest
NamesAtRest == rounds = <<>> /\ fname = <<>>
nameVars == <<rounds, fname>>

TextInit ==
    /\ text \in Texts
    /\ level \in Levels
    /\ parts = <<>>
    /\ tpc = "input"
    /\ PipelineAtRest
    /\ NamesAtRest

SplitText ==
    /\ tpc = "input"
    /\ parts' = split_markdown(text, level)
    /\ tpc' = "split"
    /\ UNCHANGED <<text, level>>
    /\ UNCHANGED pipelineVars
    /\ UNCHANGED nameVars

TextNext == SplitText

SpecText == TextInit /\ [][TextNext]_vars

(***************************************************************************)
(* Round trip of split_markdown                                            *)
(***************************************************************************)
\* t is the bodies in order, with nothing but whitespace before, between and
\* after them
RECURSIVE Covers(_, _)
Covers(t, bodies) ==
    IF bodies = <<>> THEN LStrip(t) = <<>>
    ELSE LET u == LStrip(t)
             b == Head(bodies)
         IN  /\ StartsWith(u, b)
             /\ Covers(SubSeq(u, Len(b) + 1, Len(u)), Tail(bodies))

Bodies(ps) == [i \in 1..Len(ps) |-> ps[i][2]]

\* the text opens with something that is not a "#": the prologue chunk gets a
\* synthesized heading line
OpensWithPlainText(t) == LStrip(t) # <<>> /\ Head(LStrip(t)) # HASH

BodiesWithoutSynthHeading(t, lv, ps) ==
    [i \in 1..Len(ps) |->
        IF i = 1 /\ OpensWithPlainText(t)
        THEN SubSeq(ps[1][2], Len(SynthHeading(lv, PROLOGUE)) + 1, Len(ps[1][2]))
        ELSE ps[i][2]]

ExampleChapterA == <<HASH, SP, "A", NL, "b", "o", "d", "y", "1">>
ExampleChapterB == <<HASH, SP, "B", NL, "b", "o", "d", "y", "2">>
ExampleIntro == <<"I", "n", "t", "r", "o", SP, "t", "e", "x", "t">>

IsHeadingLine(t, lv, s) ==
    /\ s < Len(t)
    /\ AtLineStart(t, s)
    /\ HashesAt(t, lv, s)
    /\ s + lv + 2 <= LineEnd(t, s)
    /\ t[s + lv + 1] \in Whitespace

\* the offsets of the heading lines from offset p on, in document order
RECURSIVE HeadingLinesFrom(_, _, _)
HeadingLinesFrom(t, lv, p) ==
    IF p >= Len(t) THEN <<>>
    ELSE IF IsHeadingLine(t, lv, p) THEN <<p>> \o HeadingLinesFrom(t, lv, p + 1)
    ELSE HeadingLinesFrom(t, lv, p + 1)

HeadingLines(t, lv) == HeadingLinesFrom(t, lv, 0)

\* the heading line at offset s, and its text
LineAt(t, s) == Slice(t, s, LineEnd(t, s))
HeadingText(t, lv, s) == Strip(Slice(t, s + lv, LineEnd(t, s)))

\* the segments ps, but for at most one before them, are the regions of the
\* heading lines hs: one segment per heading line, in order, titled by the
\* heading's text, its body the region from the heading line up to the next
\* heading line, trimmed
SegmentsFollow(t, lv, ps, hs) ==
    LET n == Len(hs)
        k == Len(ps) - n
    IN  /\ k \in {0, 1}
        /\ \A j \in 1..n :
              LET seg == ps[k + j]
                  s == hs[j]
                  nxt == IF j < n THEN hs[j + 1] ELSE Len(t)
              IN  /\ seg[1] = HeadingText(t, lv, s)
                  /\ StartsWith(seg[2], RStrip(LineAt(t, s)))
                  /\ seg[2] = Strip(Slice(t, s, nxt))

\* C16: split_markdown gives exactly one segment per heading line of the
\* configured level, in document order, titled by the heading's trimmed text,
\* its body starting with the heading line and running up to the next heading
\* line of that level; lines of other levels start no segment.
C16_SplitAtLevelOnly ==
    tpc = "split" => SegmentsFollow(text, level, parts, HeadingLines(text, level))

\* the text before the first heading line, trimmed
BeforeFirstHeading(t, hs) == Strip(Slice(t, 0, IF hs = <<>> THEN Len(t) ELSE hs[1]))

\* the segments of ps titled "prologue"
Prologues(ps) == {k \in 1..Len(ps) : ps[k][1] = PROLOGUE}

\* C17: a segment titled "prologue" is returned if and only if the text before
\* the first heading line of the configured level is not blank, and then it is
\* the first segment and the only one so titled; a text without such a heading
\* line that is not blank gives the prologue segment alone.
C17_PrologueIffPreamble ==
    tpc = "split" =>
        LET hs == HeadingLines(text, level)
        IN  /\ (Prologues(parts) # {}) <=> (BeforeFirstHeading(text, hs) # <<>>)
            /\ Prologues(parts) \subseteq {1}
            /\ (hs = <<>> /\ Strip(text) # <<>>) =>
                   (Len(parts) = 1 /\ parts[1][1] = PROLOGUE)

(***************************************************************************)
(* File names and paths (pathlib).  A name is a sequence of characters, a  *)
(* path the sequence of the names below its root.                          *)
(***************************************************************************)
DOT == "."
UpperCase == <<"A", "B", "C", "D", "E", "F", "G", "H", "I", "J", "K", "L", "M",
               "N", "O", "P", "Q", "R", "S", "T", "U", "V", "W", "X", "Y", "Z">>
LowerCase == <<"a", "b", "c", "d", "e", "f", "g", "h", "i", "j", "k", "l", "m",
               "n", "o", "p", "q", "r", "s", "t", "u", "v", "w", "x", "y", "z">>

\* str.lower()
LowerChar(c) ==
    IF \E i \in 1..Len(UpperCase) : UpperCase[i] = c
    THEN LowerCase[CHOOSE i \in 1..Len(UpperCase) : UpperCase[i] = c]
    ELSE c

Lower(s) == [i \in 1..Len(s) |-> LowerChar(s[i])]

\* the index of the last "." of a name that starts a suffix: not the first
\* character and not the last; 0 when the name has no suffix
SuffixDot(name) ==
    LET dots == {i \in 2..(Len(name) - 1) : name[i] = DOT}
        last == {i \in 1..Len(name) : name[i] = DOT}
    IN  IF last = {} THEN 0
        ELSE LET i == CHOOSE k \in last : \A j \in last : j <= k
             IN  IF i \in dots THEN i ELSE 0

\* PurePath.suffix, PurePath.stem
Suffix(name) == IF SuffixDot(name) = 0 THEN <<>> ELSE SubSeq(name, SuffixDot(name), Len(name))
Stem(name) == IF SuffixDot(name) = 0 THEN name ELSE SubSeq(name, 1, SuffixDot(name) - 1)

Parent(p) == SubSeq(p, 1, Len(p) - 1)
Name(p) == p[Len(p)]

\* PurePath.with_suffix
WithSuffix(p, suffix) == Append(Parent(p), Stem(Name(p)) \o suffix)

\* str(path)
RECURSIVE PathStr(_)
PathStr(p) ==
    IF p = <<>> THEN <<>>
    ELSE IF Len(p) = 1 THEN p[1] ELSE p[1] \o <<"/">> \o PathStr(Tail(p))

(***************************************************************************)
(* The destination tree.  The root <<>> always is a directory: main()      *)
(* creates it before it lists the source files.                            *)
(***************************************************************************)
DirNode == [kind |-> "dir", content |-> <<>>, mtime |-> 0]
FileNode(c, t) == [kind |-> "file", content |-> c, mtime |-> t]
EmptyTree == [q \in {} |-> DirNode]

Exists(tree, p) == p = <<>> \/ p \in DOMAIN tree
IsDir(tree, p) == p = <<>> \/ (p \in DOMAIN tree /\ tree[p].kind = "dir")
IsFile(tree, p) == p \in DOMAIN tree /\ tree[p].kind = "file"

Prefixes(p) == {SubSeq(p, 1, k) : k \in 1..Len(p)}
IsUnder(q, p) == Len(q) >= Len(p) /\ SubSeq(q, 1, Len(p)) = p

Put(tree, p, node) == [q \in DOMAIN tree \cup {p} |-> IF q = p THEN node ELSE tree[q]]

\* Path.mkdir(parents=True, exist_ok=True): raises when the path or one of its
\* parents is a file
MkdirOk(tree, p) == \A q \in Prefixes(p) : ~IsFile(tree, q)
Mkdir(tree, p) ==
    [q \in DOMAIN tree \cup Prefixes(p) |-> IF q \in DOMAIN tree THEN tree[q] ELSE DirNode]

\* writing a file (write_text, the converters, shutil.copy): raises when the
\* parent is no directory or the path is a directory
WriteOk(tree, p) == p # <<>> /\ IsDir(tree, Parent(p)) /\ ~IsDir(tree, p)
Write(tree, p, c, t) == Put(tree, p, FileNode(c, t))

\* shutil.rmtree: raises when the path is not a directory
RmTreeOk(tree, p) == p # <<>> /\ IsDir(tree, p)
RmTree(tree, p) == [q \in {x \in DOMAIN tree : ~IsUnder(x, p)} |-> tree[q]]

\* shutil.copy(src, dst): into dst when dst is a directory
CopyTarget(tree, from, to) == IF IsDir(tree, to) THEN Append(to, Name(from)) ELSE to

\* the tree without its timestamps
Contents(tree) == [q \in DOMAIN tree |-> [kind |-> tree[q].kind, content |-> tree[q].content]]

(***************************************************************************)
(* convert_any_to_md.py                                                    *)
(***************************************************************************)
EXT_MD == <<DOT, "m", "d">>
EXT_ERROR_TXT == <<DOT, "e", "r", "r", "o", "r", DOT, "t", "x", "t">>

CONVERTERS ==
    (<<DOT, "p", "d", "f">> :> "pdf_to_md")
    @@ (<<DOT, "e", "p", "u", "b">> :> "epub_to_md")
    @@ (<<DOT, "d", "o", "c">> :> "doc_to_md")
    @@ (<<DOT, "d", "o", "c", "x">> :> "doc_to_md")
    @@ (<<DOT, "t", "x", "t">> :> "plain_copy")
    @@ (<<DOT, "m", "o", "b", "i">> :> "kindle_to_md")
    @@ (<<DOT, "a", "z", "w">> :> "kindle_to_md")
    @@ (<<DOT, "a", "z", "w", "3">> :> "kindle_to_md")
    @@ (<<DOT, "l", "i", "t">> :> "kindle_to_md")

\* ext = src_path.suffix.lower()
ExtOf(rel) == Lower(Suffix(Name(rel)))

\* the filter of main()'s listing
Eligible(rel) == ExtOf(rel) \in DOMAIN CONVERTERS

\* What a converter that succeeds leaves at dst: plain_copy the source's bytes
\* (shutil.copy), the others a rendering of the source by their tool.
Convert(converter, content) ==
    IF converter = "plain_copy" THEN content ELSE <<converter>> \o content

\* dst_path = dst_root / rel_path.with_suffix(".md")
DstPath(rel) == WithSuffix(rel, EXT_MD)

\* error_file = dst_path.with_suffix(".error.txt")
ErrorFile(rel) == WithSuffix(DstPath(rel), EXT_ERROR_TXT)

\* f"Failed to convert {src_path}:\n\n{e}"
ErrorText(rel, e) ==
    <<"Failed to convert ">> \o PathStr(rel) \o <<":", NL, NL>> \o e

UpToDateOnTie(tree, s, rel, force) ==
    /\ ~force
    /\ Exists(tree, DstPath(rel))
    /\ tree[DstPath(rel)].mtime >= s[rel].mtime

UpToDateWhenOlder(tree, s, rel, force) ==
    /\ ~force
    /\ Exists(tree, DstPath(rel))
    /\ tree[DstPath(rel)].mtime < s[rel].mtime

\* the condition of the early return: the item is skipped as up to date
UpToDate(tree, s, rel, force) ==
    /\ ~force
    /\ Exists(tree, DstPath(rel))
    /\ tree[DstPath(rel)].mtime > s[rel].mtime

\* the source trees of the conversion runs
V1 == <<"v1">>
V2 == <<"v2">>
PARTIAL == <<"partial">>
ERR == <<"E">>

A_PDF == << <<"a", DOT, "p", "d", "f">> >>
A_TXT == << <<"a", DOT, "t", "x", "t">> >>
D_B_TXT == << <<"d">>, <<"b", DOT, "T", "X", "T">> >>
N_XYZ == << <<"n", DOT, "x", "y", "z">> >>
ConvUniverse == {A_PDF, A_TXT, D_B_TXT, N_XYZ}

\* every ordering of a finite set
RECURSIVE Orderings(_)
Orderings(S) ==
    IF S = {} THEN {<<>>}
    ELSE UNION {{<<x>> \o o : o \in Orderings(S \ {x})} : x \in S}

Range(f) == {f[i] : i \in DOMAIN f}

Items == DOMAIN files
Running == {i \in Items : pc[i] = "running"}
Ended == mainPc \in {"done", "aborted"}
Resting == mainPc \in {Idle, "done", "aborted"}

\* the items whose converter was called
Invoked == {i \in Items : pc[i] = "running" \/ outcome[i] \in {"converted", "failed", "raised"}}

\* the summary a conversion run leaves behind: its force flag, and whether it
\* ended with every item converted or skipped (of a run of the splitter the
\* next run keeps whether it has the same command line and the same listing)
Summary ==
    [force |-> opts.force,
     clean |-> mainPc = "done" /\ \A i \in Items : outcome[i] \in {"converted", "skipped"}]

NoSummary == [force |-> FALSE, clean |-> FALSE]

\* ProcessPoolExecutor(max_workers=args.workers): ValueError unless > 0
ConvPoolOk(workers) == workers > 0

\* what a conversion run leaves alone
textVars == <<text, level, parts, tpc, next_idx, rounds, fname>>
TextAtRest == text = <<>> /\ level = 0 /\ parts = <<>> /\ tpc = Idle

ConvInit ==
    /\ TextAtRest
    /\ NamesAtRest
    /\ \E S \in SUBSET ConvUniverse :
          /\ S # {} /\ Cardinality(S) <= MaxFiles
          /\ src = [p \in S |-> [content |-> V1, mtime |-> 1]]
    /\ dst = EmptyTree
    /\ clock = 1
    /\ opts = Idle
    /\ mainPc = Idle /\ files = <<>> /\ pc = <<>> /\ outcome = <<>>
    /\ processed_count = 0 /\ total_files = 0
    /\ run = 0 /\ dst0 = EmptyTree /\ prevRun = NoSummary /\ next_idx = <<>>
    /\ srcChanged = FALSE

\* main(), up to the submission of the futures
ConvMain ==
    /\ Resting
    /\ run < MaxRuns
    /\ \E force \in BOOLEAN, workers \in 0..MaxWorkers,
          fs \in Orderings({p \in DOMAIN src : Eligible(p)}) :
          /\ opts' = [pipeline |-> "convert", force |-> force, workers |-> workers,
                       edited |-> srcChanged]
          /\ files' = fs
          /\ total_files' = Len(fs)
          /\ pc' = [i \in DOMAIN fs |-> "queued"]
          /\ outcome' = [i \in DOMAIN fs |-> "none"]
          /\ mainPc' = IF ConvPoolOk(workers) THEN "collecting" ELSE "aborted"
    /\ processed_count' = 0
    /\ run' = run + 1
    /\ dst0' = dst
    /\ prevRun' = IF run = 0 THEN prevRun ELSE Summary
    /\ srcChanged' = FALSE
    /\ UNCHANGED <<src, dst, clock>>
    /\ UNCHANGED textVars

\* process_file without the `return None` of line 134: the item is logged as
\* skipped and processed all the same
ConvStartFallsThrough(i) ==
    /\ mainPc \in {"collecting", "raising"}
    /\ pc[i] = "queued"
    /\ \A j \in Items : j < i => pc[j] # "queued"
    /\ Cardinality(Running) < opts.workers
    /\ LET rel == files[i]
           dp == DstPath(rel)
           logged == IF UpToDate(dst, src, rel, opts.force) THEN "skipped" ELSE "none"
       IN  \E mkdirFails \in (IF IsDir(dst, Parent(dp)) THEN {FALSE} ELSE BOOLEAN) :
              IF mkdirFails \/ ~MkdirOk(dst, Parent(dp))
              THEN /\ pc' = [pc EXCEPT ![i] = "finished"]
                   /\ outcome' = [outcome EXCEPT ![i] = "mkdir_raised"]
                   /\ UNCHANGED dst
              ELSE /\ dst' = Mkdir(dst, Parent(dp))
                   /\ pc' = [pc EXCEPT ![i] = "running"]
                   /\ outcome' = [outcome EXCEPT ![i] = logged]
    /\ UNCHANGED <<src, clock, opts, mainPc, files, processed_count, total_files,
                   run, dst0, prevRun, srcChanged>>
    /\ UNCHANGED textVars

\* process_file up to the call of the converter: the staleness check and the
\* creation of the destination's directory. The pool starts the futures in
\* the order they were submitted, at most max_workers at a time.
ConvStart(i) ==
    /\ mainPc \in {"collecting", "raising"}
    /\ pc[i] = "queued"
    /\ \A j \in Items : j < i => pc[j] # "queued"
    /\ Cardinality(Running) < opts.workers
    /\ LET rel == files[i]
           dp == DstPath(rel)
       IN  /\ IF UpToDate(dst, src, rel, opts.force)
              THEN /\ pc' = [pc EXCEPT ![i] = "finished"]
                   /\ outcome' = [outcome EXCEPT ![i] = "skipped"]
                   /\ UNCHANGED dst
              ELSE \E mkdirFails \in (IF IsDir(dst, Parent(dp)) THEN {FALSE} ELSE BOOLEAN) :
                      IF mkdirFails \/ ~MkdirOk(dst, Parent(dp))
                      THEN /\ pc' = [pc EXCEPT ![i] = "finished"]
                           /\ outcome' = [outcome EXCEPT ![i] = "mkdir_raised"]
                           /\ UNCHANGED dst
                      ELSE /\ dst' = Mkdir(dst, Parent(dp))
                           /\ pc' = [pc EXCEPT ![i] = "running"]
                           /\ UNCHANGED outcome
    /\ UNCHANGED <<src, clock, opts, mainPc, files, processed_count, total_files,
                   run, dst0, prevRun, srcChanged>>
    /\ UNCHANGED textVars

\* the converter returns or raises, and process_file returns or raises
ConvFinish(i) ==
    /\ mainPc \in {"collecting", "raising"}
    /\ pc[i] = "running"
    /\ LET rel == files[i]
           dp == DstPath(rel)
           ef == ErrorFile(rel)
       IN  \E raises \in BOOLEAN, leavesPartial \in BOOLEAN, sidecarFails \in BOOLEAN :
              IF ~raises /\ WriteOk(dst, dp)
              THEN /\ ~leavesPartial /\ ~sidecarFails
                   /\ dst' = Write(dst, dp, Convert(CONVERTERS[ExtOf(rel)], src[rel].content), clock)
                   /\ outcome' = [outcome EXCEPT ![i] = "converted"]
              ELSE LET left == IF leavesPartial /\ WriteOk(dst, dp)
                               THEN Write(dst, dp, PARTIAL, clock) ELSE dst
                   IN  IF sidecarFails \/ ~WriteOk(left, ef)
                       THEN /\ dst' = left
                            /\ outcome' = [outcome EXCEPT ![i] = "raised"]
                       ELSE /\ dst' = Write(left, ef, ErrorText(rel, ERR), clock)
                            /\ outcome' = [outcome EXCEPT ![i] = "failed"]
    /\ pc' = [pc EXCEPT ![i] = "finished"]
    /\ UNCHANGED <<src, clock, opts, mainPc, files, processed_count, total_files,
                   run, dst0, prevRun, srcChanged>>
    /\ UNCHANGED textVars

\* one round of `for future in as_completed(futures)`: future.result() returns
\* and the count goes up, or it raises what process_file raised
ConvCollect(i) ==
    /\ mainPc = "collecting"
    /\ pc[i] = "finished"
    /\ pc' = [pc EXCEPT ![i] = "collected"]
    /\ IF outcome[i] \in {"raised", "mkdir_raised"}
       THEN /\ mainPc' = "raising"
            /\ UNCHANGED processed_count
       ELSE /\ processed_count' = processed_count + 1
            /\ UNCHANGED mainPc
    /\ UNCHANGED <<src, dst, clock, opts, files, outcome, total_files,
                   run, dst0, prevRun, srcChanged>>
    /\ UNCHANGED textVars

\* the loop is over: "All files processed. Done."
ConvDone ==
    /\ mainPc = "collecting"
    /\ \A i \in Items : pc[i] = "collected"
    /\ mainPc' = "done"
    /\ UNCHANGED <<src, dst, clock, opts, files, pc, outcome, processed_count,
                   total_files, run, dst0, prevRun, srcChanged>>
    /\ UNCHANGED textVars

\* the exception leaves the `with` block: the executor's __exit__ waits for
\* the futures still queued or running, then main() dies with the exception
ConvAbort ==
    /\ mainPc = "raising"
    /\ \A i \in Items : pc[i] \in {"finished", "collected"}
    /\ mainPc' = "aborted"
    /\ UNCHANGED <<src, dst, clock, opts, files, pc, outcome, processed_count,
                   total_files, run, dst0, prevRun, srcChanged>>
    /\ UNCHANGED textVars

\* the wall clock
Tick ==
    /\ Resting
    /\ clock < MaxClock
    /\ clock' = clock + 1
    /\ UNCHANGED <<src, dst, opts, mainPc, files, pc, outcome, processed_count,
                   total_files, run, dst0, prevRun, srcChanged>>
    /\ UNCHANGED textVars

\* the user edits a source file between two runs
EditSource(rel) ==
    /\ mainPc \in {"done", "aborted"}
    /\ ~srcChanged
    /\ src[rel].content = V1
    /\ src' = [src EXCEPT ![rel] = [content |-> V2, mtime |-> clock]]
    /\ srcChanged' = TRUE
    /\ UNCHANGED <<dst, clock, opts, mainPc, files, pc, outcome, processed_count,
                   total_files, run, dst0, prevRun>>
    /\ UNCHANGED textVars

ConvNext ==
    \/ ConvMain
    \/ \E i \in Items : ConvStart(i)
    \/ \E i \in Items : ConvFinish(i)
    \/ \E i \in Items : ConvCollect(i)
    \/ ConvDone
    \/ ConvAbort
    \/ Tick
    \/ \E rel \in DOMAIN src : EditSource(rel)

SpecConvert == ConvInit /\ [][ConvNext]_vars

(***************************************************************************)
(* A conversion run in which every converter succeeds, the items taken one *)
(* after the other: process_file without its except branch.                *)
(***************************************************************************)
RECURSIVE ConvRunClean(_, _, _, _)
ConvRunClean(tree, fs, force, now) ==
    IF fs = <<>> THEN tree
    ELSE LET rel == Head(fs)
             dp == DstPath(rel)
         IN  IF UpToDate(tree, src, rel, force)
             THEN ConvRunClean(tree, Tail(fs), force, now)
             ELSE ConvRunClean(
                      Write(Mkdir(tree, Parent(dp)), dp,
                            Convert(CONVERTERS[ExtOf(rel)], src[rel].content), now),
                      Tail(fs), force, now)

\* the list without its i-th element
Without(fs, i) == SubSeq(fs, 1, i - 1) \o SubSeq(fs, i + 1, Len(fs))

ContentAt(tree, p) == IF IsFile(tree, p) THEN tree[p].content ELSE <<"absent">>

(***************************************************************************)
(* Claims about the conversion pipeline                                    *)
(***************************************************************************)
\* process_file leaves "queued" for item i in this step
Decides(i) == UNCHANGED files /\ pc[i] = "queued" /\ pc'[i] # "queued"

SecondCleanRun ==
    /\ mainPc = "done" /\ run >= 2 /\ Items # {}
    /\ ~srcChanged
    /\ ~opts.force /\ ~opts.edited
    /\ ~prevRun.force /\ prevRun.clean
    /\ \A i \in Items : outcome[i] \in {"converted", "skipped"}

AllNewer == \A i \in Items :
               /\ Exists(dst0, DstPath(files[i]))
               /\ dst0[DstPath(files[i])].mtime > src[files[i]].mtime

ConverterRaised == {i \in Items : outcome[i] \in {"failed", "raised"}}

\* C3 (isolation), for a run that had no item up to date when it began and in
\* which nothing but one converter raised: when the run has ended, one item
\* is Failed, the others are Converted, and each of the others' destination
\* file is what a run without the failing item leaves there.
C3_Isolation ==
    (/\ Ended /\ ~srcChanged /\ opts.workers > 0
     /\ Cardinality(ConverterRaised) = 1
     /\ \A i \in Items : outcome[i] # "mkdir_raised"
     /\ (opts.force \/ dst0 = EmptyTree)) =>
        LET bad == CHOOSE i \in Items : i \in ConverterRaised
            ref == ConvRunClean(dst0, Without(files, bad), opts.force, clock)
        IN  /\ \A i \in Items : pc[i] \in {"finished", "collected"}
            /\ Cardinality({i \in Items : outcome[i] = "failed"}) = 1
            /\ Cardinality({i \in Items : outcome[i] = "converted"}) = total_files - 1
            /\ \A i \in Items \ {bad} :
                  ContentAt(dst, DstPath(files[i])) = ContentAt(ref, DstPath(files[i]))

\* C4: no error of process_file leaves it: no future ends with an exception,
\* and main()'s loop over the results is never left by one.
C4_ErrorsCaught ==
    /\ \A i \in Items : outcome[i] \notin {"raised", "mkdir_raised"}
    /\ mainPc # "raising"

\* C7: the count is between 0 and the total, and when a run that made its pool
\* has ended the count is the total.
C7_Progress ==
    /\ processed_count \in 0..total_files
    /\ (Ended /\ opts.workers > 0) => processed_count = total_files

(***************************************************************************)
(* split_md_by_heading.py: file names of the chapters                      *)
(***************************************************************************)
DigitChars == <<"0", "1", "2", "3", "4", "5", "6", "7", "8", "9">>

\* the characters INVALID_CHARS leaves alone: A-Za-z0-9._-
ValidChars == Range(UpperCase) \cup Range(LowerCase) \cup Range(DigitChars) \cup {DOT, "_", "-"}

MAX_LEN == 80

\* INVALID_CHARS.sub("_", s): every maximal run of other characters becomes one "_"
RECURSIVE SubInvalid(_)
SubInvalid(s) ==
    IF s = <<>> THEN <<>>
    ELSE IF Head(s) \in ValidChars THEN <<Head(s)>> \o SubInvalid(Tail(s))
    ELSE IF Len(s) > 1 /\ s[2] \notin ValidChars THEN SubInvalid(Tail(s))
    ELSE <<"_">> \o SubInvalid(Tail(s))

\* str.strip("_")
RECURSIVE StripUnderscores(_)
StripUnderscores(s) ==
    IF s = <<>> THEN s
    ELSE IF Head(s) = "_" THEN StripUnderscores(Tail(s))
    ELSE IF s[Len(s)] = "_" THEN StripUnderscores(SubSeq(s, 1, Len(s) - 1))
    ELSE s

UNTITLED == <<"u", "n", "t", "i", "t", "l", "e", "d">>

sanitize_filename(name) ==
    LET clean == StripUnderscores(SubInvalid(Lower(name)))
        cut == SubSeq(clean, 1, IF Len(clean) < MAX_LEN THEN Len(clean) ELSE MAX_LEN)
    IN  IF cut = <<>> THEN UNTITLED ELSE cut

\* str(n) for n >= 0
RECURSIVE Decimal(_)
Decimal(n) == IF n < 10 THEN <<DigitChars[n + 1]>>
              ELSE Decimal(n \div 10) \o <<DigitChars[(n % 10) + 1]>>

\* f"{idx:02d}"
Format02d(idx) == IF idx < 10 THEN <<"0">> \o Decimal(idx) ELSE Decimal(idx)

\* fname = f"ch{idx:02d}_{sanitize_filename(title)}.md"
ChapterNameWithoutIndex(idx, title) ==
    <<"c", "h", "_">> \o sanitize_filename(title) \o EXT_MD

ChapterName(idx, title) ==
    <<"c", "h">> \o Format02d(idx) \o <<"_">> \o sanitize_filename(title) \o EXT_MD

(***************************************************************************)
(* SpecNames: two rounds (idx, title) of the loop of _write_chapters over  *)
(* one chapter list, the earlier round first, and the file names the loop  *)
(* computes in them.                                                       *)
(***************************************************************************)
\* "Part 1!!", "Part 1??", "!!"
PART_1_BANG == <<"P", "a", "r", "t", SP, "1", "!", "!">>
PART_1_QUERY == <<"P", "a", "r", "t", SP, "1", "?", "?">>
BANGS == <<"!", "!">>
Titles == {PART_1_BANG, PART_1_QUERY, BANGS, <<"b">>}

NamesInit ==
    /\ TextAtRest
    /\ PipelineAtRest
    /\ \E i \in 0..(MaxChapters - 1), j \in 0..(MaxChapters - 1), ti \in Titles, tj \in Titles :
          /\ i < j
          /\ rounds = <<[idx |-> i, title |-> ti], [idx |-> j, title |-> tj]>>
    /\ fname = <<>>

\* the two rounds compute their file names
NameChapters ==
    /\ rounds # <<>>
    /\ fname = <<>>
    /\ fname' = [k \in 1..2 |-> ChapterName(rounds[k].idx, rounds[k].title)]
    /\ UNCHANGED rounds
    /\ UNCHANGED <<text, level, parts, tpc>>
    /\ UNCHANGED pipelineVars

NamesNext == NameChapters

SpecNames == NamesInit /\ [][NamesNext]_vars

\* the characters of the titles and file names, by code point
CodePoints ==
    <<SP, "!", "-", DOT>> \o DigitChars \o <<"?">> \o UpperCase \o <<"_">> \o LowerCase

Ord(c) == CHOOSE k \in 1..Len(CodePoints) : CodePoints[k] = c

\* a sorts strictly before b as a string
RECURSIVE LexLess(_, _)
LexLess(a, b) ==
    IF b = <<>> THEN FALSE
    ELSE IF a = <<>> THEN TRUE
    ELSE IF Head(a) = Head(b) THEN LexLess(Tail(a), Tail(b))
    ELSE Ord(Head(a)) < Ord(Head(b))

\* C12: the file name of an earlier chapter sorts strictly before the file
\* name of every later chapter of the same list, whatever the number of
\* chapters and the titles.
C12_LexicalOrder ==
    fname # <<>> => LexLess(fname[1], fname[2])

\* C14: two chapters of one list never get the same file name, also when
\* their titles sanitize to the same string or to the empty string.
C14_UniqueNames ==
    fname # <<>> => fname[1] # fname[2]

\* two chapters titled "Part 1!!" and "Part 1??" have been named, and two
\* whose titles sanitize to the empty string
C14_Witness ==
    /\ fname # <<>>
    /\ \/ /\ rounds[1].title = PART_1_BANG /\ rounds[2].title = PART_1_QUERY
          /\ sanitize_filename(PART_1_BANG) = sanitize_filename(PART_1_QUERY)
       \/ /\ rounds[1].title = BANGS /\ rounds[2].title = BANGS
          /\ sanitize_filename(BANGS) = UNTITLED

(***************************************************************************)
(* split_md_by_heading.py: process_file and _write_chapters, piece by      *)
(* piece. Each piece gives [ok, tree]: ok is FALSE when it raises.         *)
(***************************************************************************)
\* the filter of iter_markdown_files: rglob("*.md")
IsMarkdown(rel) == Suffix(Name(rel)) = EXT_MD

\* book_dir = dst_root / src_path.stem
BookDir(rel) == <<Stem(Name(rel))>>

\* dst = book_dir.with_suffix(".md")
CopyDst(rel) == WithSuffix(BookDir(rel), EXT_MD)

Chapters(rel, o) == split_markdown(src[rel].content, o.level)

\* len(chapters) <= 1
Unsplittable(rel, o) == Len(Chapters(rel, o)) <= 1

\* the branch for a file that is not split
NoSplit(tree, rel, o, now) ==
    IF o.no_split_action = "copy"
    THEN IF o.dry_run THEN [ok |-> TRUE, tree |-> tree, outcome |-> "dry_copy"]
         ELSE IF ~MkdirOk(tree, Parent(CopyDst(rel)))
              THEN [ok |-> FALSE, tree |-> tree, outcome |-> "failed"]
         ELSE LET made == Mkdir(tree, Parent(CopyDst(rel)))
                  to == CopyTarget(made, rel, CopyDst(rel))
              IN  IF WriteOk(made, to)
                  THEN [ok |-> TRUE, tree |-> Write(made, to, src[rel].content, now),
                        outcome |-> "copied"]
                  ELSE [ok |-> FALSE, tree |-> made, outcome |-> "failed"]
    ELSE [ok |-> TRUE, tree |-> tree, outcome |-> "skipped"]

\* if force and book_dir.exists(): shutil.rmtree(book_dir)
RemoveBook(tree, rel, o) ==
    IF o.force /\ Exists(tree, BookDir(rel))
    THEN IF RmTreeOk(tree, BookDir(rel))
         THEN [ok |-> TRUE, tree |-> RmTree(tree, BookDir(rel))]
         ELSE [ok |-> FALSE, tree |-> tree]
    ELSE [ok |-> TRUE, tree |-> tree]

\* book_dir.mkdir(parents=True, exist_ok=True)
MakeBook(tree, rel) ==
    IF MkdirOk(tree, BookDir(rel))
    THEN [ok |-> TRUE, tree |-> Mkdir(tree, BookDir(rel))]
    ELSE [ok |-> FALSE, tree |-> tree]

WriteChapterAppending(tree, rel, o, idx, now) ==
    LET ch == Chapters(rel, o)[idx + 1]
        path == Append(BookDir(rel), ChapterName(idx, ch[1]))
        old == IF IsFile(tree, path) THEN tree[path].content ELSE <<>>
    IN  IF o.dry_run THEN [ok |-> TRUE, tree |-> tree]
        ELSE IF WriteOk(tree, path)
             THEN [ok |-> TRUE, tree |-> Write(tree, path, old \o ch[2] \o <<NL>>, now)]
             ELSE [ok |-> FALSE, tree |-> tree]

\* one round of the loop over the chapters; idx counts from 0
WriteChapter(tree, rel, o, idx, now) ==
    LET ch == Chapters(rel, o)[idx + 1]
        path == Append(BookDir(rel), ChapterName(idx, ch[1]))
    IN  IF o.dry_run THEN [ok |-> TRUE, tree |-> tree]
        ELSE IF WriteOk(tree, path)
             THEN [ok |-> TRUE, tree |-> Write(tree, path, ch[2] \o <<NL>>, now)]
             ELSE [ok |-> FALSE, tree |-> tree]

\* the loop over the chapters from idx on
RECURSIVE WriteFrom(_, _, _, _, _)
WriteFrom(tree, rel, o, idx, now) ==
    IF idx >= Len(Chapters(rel, o))
    THEN [ok |-> TRUE, tree |-> tree, outcome |-> "processed"]
    ELSE LET w == WriteChapter(tree, rel, o, idx, now)
         IN  IF w.ok THEN WriteFrom(w.tree, rel, o, idx + 1, now)
             ELSE [ok |-> FALSE, tree |-> w.tree, outcome |-> "failed"]

\* process_file from its first line to its last, nothing running beside it
ProcessWhole(tree, rel, o, now) ==
    IF Unsplittable(rel, o) THEN NoSplit(tree, rel, o, now)
    ELSE LET r == RemoveBook(tree, rel, o)
         IN  IF ~r.ok THEN [ok |-> FALSE, tree |-> r.tree, outcome |-> "failed"]
             ELSE LET m == MakeBook(r.tree, rel)
                  IN  IF ~m.ok THEN [ok |-> FALSE, tree |-> m.tree, outcome |-> "failed"]
                      ELSE WriteFrom(m.tree, rel, o, 0, now)

\* the sequential path of main(): the files one after the other
RECURSIVE RunSequential(_, _, _, _)
RunSequential(tree, fs, o, now) ==
    IF fs = <<>> THEN [tree |-> tree, outcomes |-> <<>>]
    ELSE LET one == ProcessWhole(tree, Head(fs), o, now)
             rest == RunSequential(one.tree, Tail(fs), o, now)
         IN  [tree |-> rest.tree, outcomes |-> <<one.outcome>> \o rest.outcomes]

(***************************************************************************)
(* split_md_by_heading.py: a run of main()                                 *)
(***************************************************************************)
\* "x"
DocPlain == <<"x">>
\* "# a\n# b"
DocTwo == <<HASH, SP, "a", NL, HASH, SP, "b">>
\* "# a\n## b\n## c"
DocSub == <<HASH, SP, "a", NL, HASH, HASH, SP, "b", NL, HASH, HASH, SP, "c">>
\* "#\na\n#\nb": two lines that hold the marker alone, each before a plain line
DocBare == <<HASH, NL, "a", NL, HASH, NL, "b">>
Docs == {DocPlain, DocTwo, DocSub, DocBare}

A_MD == << <<"a", DOT, "m", "d">> >>
B_MD == << <<"b", DOT, "m", "d">> >>
D_A_MD == << <<"d">>, <<"a", DOT, "m", "d">> >>
SplitUniverse == {A_MD, B_MD, D_A_MD}

\* workers = os.cpu_count() if args.workers == 0 else max(1, args.workers)
EffectiveWorkers(arg) == IF arg = 0 THEN CpuCount ELSE IF arg < 1 THEN 1 ELSE arg

InBook == {i \in Items : pc[i] \in {"mkdir", "writing"}}

splitFrame == <<text, level, parts, tpc, processed_count, total_files, prevRun,
                rounds, fname>>

SplitInit ==
    /\ TextAtRest
    /\ NamesAtRest
    /\ \E S \in SUBSET SplitUniverse :
          /\ S # {} /\ Cardinality(S) <= MaxFiles
          /\ src \in [S -> [content : Docs, mtime : {1}]]
    /\ dst = EmptyTree
    /\ clock = 1
    /\ opts = Idle
    /\ mainPc = Idle /\ files = <<>> /\ pc = <<>> /\ outcome = <<>>
    /\ processed_count = 0 /\ total_files = 0
    /\ run = 0 /\ dst0 = EmptyTree /\ prevRun = NoSummary /\ next_idx = <<>>
    /\ srcChanged = FALSE

\* main(), up to the loop over the files or the submission of the futures
SplitMain ==
    /\ Resting
    /\ run < MaxRuns
    /\ \E lv \in Levels, force \in BOOLEAN, action \in {"skip", "copy"},
          dry \in BOOLEAN, arg \in 0..MaxWorkers,
          fs \in Orderings({p \in DOMAIN src : IsMarkdown(p)}) :
          /\ opts' = [pipeline |-> "split", level |-> lv, force |-> force,
                      no_split_action |-> action, dry_run |-> dry,
                      workers |-> EffectiveWorkers(arg), edited |-> srcChanged]
          /\ files' = fs
          /\ pc' = [i \in DOMAIN fs |-> "queued"]
          /\ outcome' = [i \in DOMAIN fs |-> "none"]
          /\ next_idx' = [i \in DOMAIN fs |-> 0]
          /\ mainPc' = IF fs = <<>> THEN "done"
                       ELSE IF EffectiveWorkers(arg) = 1 THEN "sequential" ELSE "pool"
          /\ prevRun' = [same |-> run >= 1 /\ opts' = opts /\ fs = files]
    /\ run' = run + 1
    /\ dst0' = dst
    /\ srcChanged' = FALSE
    /\ UNCHANGED <<src, dst, clock>>
    /\ UNCHANGED <<text, level, parts, tpc, processed_count, total_files, rounds, fname>>

\* one round of the sequential loop: process_file(fp, ...) from start to end
SplitSequential(i) ==
    /\ mainPc = "sequential"
    /\ pc[i] = "queued"
    /\ \A j \in Items : j < i => pc[j] = "finished"
    /\ LET r == ProcessWhole(dst, files[i], opts, clock)
       IN  /\ dst' = r.tree
           /\ outcome' = [outcome EXCEPT ![i] = r.outcome]
    /\ pc' = [pc EXCEPT ![i] = "finished"]
    /\ UNCHANGED <<src, clock, opts, mainPc, files, run, dst0, next_idx, srcChanged>>
    /\ UNCHANGED splitFrame

\* a worker of the pool takes the next future: process_file reads and splits
\* the file, then either handles it unsplit or enters _write_chapters and
\* removes the book directory
SplitBegin(i) ==
    /\ mainPc = "pool"
    /\ pc[i] = "queued"
    /\ \A j \in Items : j < i => pc[j] # "queued"
    /\ Cardinality(InBook) < opts.workers
    /\ IF Unsplittable(files[i], opts)
       THEN LET r == NoSplit(dst, files[i], opts, clock)
            IN  /\ dst' = r.tree
                /\ outcome' = [outcome EXCEPT ![i] = r.outcome]
                /\ pc' = [pc EXCEPT ![i] = "finished"]
       ELSE LET r == RemoveBook(dst, files[i], opts)
            IN  /\ dst' = r.tree
                /\ outcome' = [outcome EXCEPT ![i] = IF r.ok THEN "none" ELSE "failed"]
                /\ pc' = [pc EXCEPT ![i] = IF r.ok THEN "mkdir" ELSE "finished"]
    /\ UNCHANGED <<src, clock, opts, mainPc, files, run, dst0, next_idx, srcChanged>>
    /\ UNCHANGED splitFrame

\* _write_chapters creates the book directory
SplitMkdir(i) ==
    /\ mainPc = "pool"
    /\ pc[i] = "mkdir"
    /\ LET m == MakeBook(dst, files[i])
       IN  /\ dst' = m.tree
           /\ outcome' = [outcome EXCEPT ![i] = IF m.ok THEN "none" ELSE "failed"]
           /\ pc' = [pc EXCEPT ![i] = IF m.ok THEN "writing" ELSE "finished"]
    /\ UNCHANGED <<src, clock, opts, mainPc, files, run, dst0, next_idx, srcChanged>>
    /\ UNCHANGED splitFrame

\* _write_chapters writes the next chapter, or would under --dry-run
SplitWrite(i) ==
    /\ mainPc = "pool"
    /\ pc[i] = "writing"
    /\ LET w == WriteChapter(dst, files[i], opts, next_idx[i], clock)
           last == next_idx[i] + 1 >= Len(Chapters(files[i], opts))
       IN  /\ dst' = w.tree
           /\ next_idx' = [next_idx EXCEPT ![i] = IF w.ok THEN @ + 1 ELSE @]
           /\ outcome' = [outcome EXCEPT ![i] =
                             IF ~w.ok THEN "failed" ELSE IF last THEN "processed" ELSE "none"]
           /\ pc' = [pc EXCEPT ![i] = IF ~w.ok \/ last THEN "finished" ELSE "writing"]
    /\ UNCHANGED <<src, clock, opts, mainPc, files, run, dst0, srcChanged>>
    /\ UNCHANGED splitFrame

\* the loop, or the `with` block after every f.result(), is over
SplitDone ==
    /\ mainPc \in {"sequential", "pool"}
    /\ \A i \in Items : pc[i] = "finished"
    /\ mainPc' = "done"
    /\ UNCHANGED <<src, dst, clock, opts, files, pc, outcome, run, dst0, next_idx,
                   srcChanged>>
    /\ UNCHANGED splitFrame

\* the user rewrites a source document between two runs
EditDoc(rel, doc) ==
    /\ mainPc = "done"
    /\ ~srcChanged
    /\ src[rel].content # doc
    /\ src' = [src EXCEPT ![rel] = [content |-> doc, mtime |-> clock]]
    /\ srcChanged' = TRUE
    /\ UNCHANGED <<dst, clock, opts, mainPc, files, pc, outcome, run, dst0, next_idx>>
    /\ UNCHANGED splitFrame

SplitNext ==
    \/ SplitMain
    \/ \E i \in Items : SplitSequential(i)
    \/ \E i \in Items : SplitBegin(i)
    \/ \E i \in Items : SplitMkdir(i)
    \/ \E i \in Items : SplitWrite(i)
    \/ SplitDone
    \/ \E rel \in DOMAIN src, doc \in Docs : EditDoc(rel, doc)

SpecSplit == SplitInit /\ [][SplitNext]_vars

(***************************************************************************)
(* Claims about the destinations and about the splitting pipeline          *)
(***************************************************************************)
\* where item i of the current run writes: the converted file, or the book
\* directory
Destination(i) ==
    IF opts.pipeline = "convert" THEN DstPath(files[i]) ELSE BookDir(files[i])

\* C5: two distinct source files of one run never have the same destination
\* path, so no two workers are ever at work on the same path.
C5_DistinctDestinations ==
    \A i \in Items : \A j \in Items : i # j => Destination(i) # Destination(j)

\* C6: a run of the splitter on a pool of more than one worker ends, whatever
\* the interleaving, with the destination tree and the outcomes that the
\* sequential path gives for the same files and options.
C6_ConcurrencyInvariance ==
    (run >= 1 /\ mainPc = "done" /\ ~srcChanged /\ opts.workers > 1) =>
        LET seq == RunSequential(dst0, files, opts, clock)
        IN  /\ Contents(dst) = Contents(seq.tree)
            /\ outcome = seq.outcomes

\* C9: under --dry-run the destination tree stays as it was when the run began.
C9_DryRunTouchesNothing ==
    (run >= 1 /\ opts.dry_run) => dst = dst0

\* the paths at which two trees differ
Changed(t1, t2) ==
    {q \in DOMAIN t1 \cup DOMAIN t2 :
        ~(q \in DOMAIN t1 /\ q \in DOMAIN t2 /\ t1[q] = t2[q])}

\* process_file takes up item i in this step, not under --dry-run, and the
\* item's text has no heading line of the configured level
HandlesHeadless(i) ==
    /\ UNCHANGED files
    /\ pc[i] = "queued" /\ pc'[i] # "queued"
    /\ ~opts.dry_run
    /\ HeadingLines(src[files[i]].content, opts.level) = <<>>

\* C10: a document without a heading of the configured level, not under
\* --dry-run: with "copy" exactly one path of the destination tree is written,
\* a file with the content of the source; with "skip" the tree is unchanged.
C10_NoHeadingFallback ==
    [][\A i \in Items :
          HandlesHeadless(i) =>
             IF opts.no_split_action = "copy"
             THEN \E p \in DOMAIN dst' :
                     /\ Changed(dst, dst') \subseteq {p}
                     /\ IsFile(dst', p)
                     /\ dst'[p].content = src[files[i]].content
                     /\ outcome'[i] = "copied"
             ELSE dst' = dst /\ outcome'[i] = "skipped"]_vars

(***************************************************************************)
(* Sidecar files of failed items                                           *)
(***************************************************************************)
\* the sequence c holds the sequence s as a contiguous part
Mentions(c, s) ==
    \E k \in 0..(Len(c) - Len(s)) : SubSeq(c, k + 1, k + Len(s)) = s

\* a file beside the destination of item i that holds the path of the item's
\* source and the text of the error
SidecarOf(i) ==
    {p \in DOMAIN dst :
        /\ IsFile(dst, p)
        /\ Parent(p) = Parent(Destination(i))
        /\ Mentions(dst[p].content, PathStr(files[i]))
        /\ Mentions(dst[p].content, ERR)}

\* C11: when a run of either pipeline has ended, every item whose outcome is
\* Failed has a sidecar file beside its destination, holding the path of its
\* source and the text of the error.
C11_SidecarOnFailure ==
    (run >= 1 /\ Ended) =>
        \A i \in Items : outcome[i] = "failed" => SidecarOf(i) # {}

(***************************************************************************)
(* A worker count of 0                                                     *)
(***************************************************************************)
\* C13: --workers 0 stands for the CPU count: the splitter takes
\* os.cpu_count() workers, and a conversion run started with 0 makes its pool
\* and ends with every item processed.
C13_ZeroMeansAllCpus ==
    /\ EffectiveWorkers(0) = CpuCount
    /\ (run >= 1 /\ opts.pipeline = "convert" /\ opts.workers = 0) =>
           /\ mainPc # "aborted"
           /\ Ended => \A i \in Items : outcome[i] # "none"

(***************************************************************************)
(* Running the splitter twice                                              *)
(***************************************************************************)
\* the second of two sequential runs of the splitter, not --dry-run, with the
\* command line and the listing of the first and no source edited in between,
\* has ended
SecondSameRun ==
    /\ mainPc = "done" /\ run >= 2 /\ Items # {}
    /\ opts.pipeline = "split"
    /\ ~srcChanged /\ ~opts.edited
    /\ prevRun.same
    /\ opts.workers = 1 /\ ~opts.dry_run

\* C15: the second run leaves in the destination tree the files and the
\* contents the first run left, with force and without.
C15_SplitIdempotent ==
    SecondSameRun => Contents(dst) = Contents(dst0)

\* a book has been written twice
C15_Witness ==
    /\ SecondSameRun
    /\ \E i \in Items :
          /\ outcome[i] = "processed"
          /\ \E q \in DOMAIN dst : IsFile(dst, q) /\ Parent(q) = BookDir(files[i])
    /\ Contents(dst) = Contents(dst0)

(***************************************************************************)
(* Skipped and failed items of the conversion pipeline                     *)
(***************************************************************************)
\* C18: the step of process_file that skips an item as up to date leaves the
\* destination tree as it is and ends process_file for the item: no directory
\* is made, no converter called, no file written, then or later in the run.
C18_SkipTouchesNothing ==
    [][\A i \in Items :
          /\ (Decides(i) /\ outcome'[i] = "skipped") =>
                (dst' = dst /\ pc'[i] = "finished")
          /\ (outcome[i] = "skipped" /\ UNCHANGED run) =>
                (outcome'[i] = "skipped" /\ pc'[i] \in {"finished", "collected"})]_vars

\* an item has been skipped while another item of the run is being converted
C18_Witness ==
    \E i \in Items, j \in Items :
        /\ outcome[i] = "skipped" /\ pc[i] \in {"finished", "collected"}
        /\ pc[j] = "running"
        /\ IsFile(dst, DstPath(files[i]))

\* item i failed in the first run: the run left the item's sidecar file
FailedBefore(i) ==
    /\ run = 2
    /\ IsFile(dst0, ErrorFile(files[i]))
    /\ dst0[ErrorFile(files[i])].content = ErrorText(files[i], ERR)

\* C19: an item that failed in the first run is not skipped as up to date in a
\* second run without force over the unchanged source tree, whatever the
\* failing converter left at the destination path: its converter is called
\* again.
C19_FailedIsRetried ==
    \A i \in Items :
        (FailedBefore(i) /\ ~opts.force /\ ~opts.edited) => outcome[i] # "skipped"

(***************************************************************************)
(* The book directory after a forced run                                   *)
(***************************************************************************)
\* what lies in the book directory of item i
BookFiles(i) ==
    {q \in DOMAIN dst : IsUnder(q, BookDir(files[i])) /\ q # BookDir(files[i])}

\* the path of chapter k (counted from 1) of item i's current split
ChapterPath(i, k) ==
    Append(BookDir(files[i]), ChapterName(k - 1, Chapters(files[i], opts)[k][1]))

\* C20: when a run of the splitter with --force, not --dry-run, has ended, the
\* book directory of every source file that splits into two or more chapters
\* holds the chapter files of that file's split, with their contents, and
\* nothing else.
C20_BookIsCurrentSplit ==
    (/\ run >= 1 /\ mainPc = "done" /\ opts.pipeline = "split"
     /\ ~srcChanged /\ ~opts.dry_run /\ opts.force) =>
        \A i \in Items :
            ~Unsplittable(files[i], opts) =>
                LET n == Len(Chapters(files[i], opts))
                IN  /\ IsDir(dst, BookDir(files[i]))
                    /\ BookFiles(i) = {ChapterPath(i, k) : k \in 1..n}
                    /\ \A k \in 1..n :
                          /\ IsFile(dst, ChapterPath(i, k))
                          /\ dst[ChapterPath(i, k)].content =
                                 Chapters(files[i], opts)[k][2] \o <<NL>>

====
